---- MODULE Spec2Model ----
(***************************************************************************)
(* Maze chase ("D tasks/main.cpp"): the A* pathfinder astar_next_step, the *)
(* Mover tween and the round loop of main().                               *)
(***************************************************************************)
EXTENDS Integers, Sequences, FiniteSets, TLC

VARIABLES
    maze,      \* vector<vector<int>> g / maze, rows top to bottom
    a_s,       \* astar_next_step: s
    a_t,       \* astar_next_step: t
    gscore,    \* astar_next_step: gscore[r][c]
    came,      \* astar_next_step: came[r][c]
    pq,        \* astar_next_step: the open priority queue
    apc,       \* astar_next_step: position ("call", "search", "tail", "done")
    a_target,  \* astar_next_step: target, the cell the path is rebuilt from
    a_ret,     \* astar_next_step: the returned cell
    a_s0,      \* the start of the first call of a chase with a fixed goal
    a_steps,   \* calls completed so far in that chase
    pc,        \* main: position ("start", "loop", "render", "exit0", "exit1", "hung")
    exit_cell, \* main: exit_cell
    player,    \* main: Mover player
    monster,   \* main: Mover monster
    coins,     \* main: vector<Coin> coins
    coins_collected,       \* main: coins_collected
    score,                 \* main: score
    last_coins_collected,  \* main: last_coins_collected
    last_score,            \* main: last_score
    end_stats_ready,       \* main: end_stats_ready
    victory,               \* main: victory
    game_over,             \* main: game_over
    in_key,    \* main: what the key_typed reads of lines 492-493 saw in this
               \* frame, "none" when they were not reached
    frame_dt,  \* main: dt of the frame whose update has run, in 1/DtDen s; 0
               \* at the top of the loop
    gen_ret,   \* reset_round: how the generator run of the reset that has just
               \* returned ended ("ok", "failed"), "none" otherwise
    mover,     \* a Mover that place_at_cell, start_move and update_mover are
               \* called on in any order
    heap,      \* link_list.cpp: the node memory, node id -> [data, next, live]
    list,      \* link_list.cpp: the linked_list, [first, last] (node ids)
    call,      \* link_list.cpp: the call of the latest turn of the menu,
               \* [op, position, data]; op "none" when it made none
    arr,       \* dynamic array.hpp: the DynamicArray, [data, size, capacity];
               \* data is the buffer it points to, <<>> for NULL
    acall      \* dynamic array.hpp: the latest call, [op, value, ret, wrote]:
               \* its argument, the value it returns and the index line 71
               \* has written at (-1 when it has not written)

avars == <<a_s, a_t, gscore, came, pq, apc, a_target, a_ret, a_s0, a_steps>>
gvars == <<pc, exit_cell, player, monster, coins, coins_collected, score,
           last_coins_collected, last_score, end_stats_ready, victory, game_over,
           in_key, frame_dt, gen_ret>>
lvars == <<heap, list, call>>
dvars == <<arr, acall>>
vars == <<maze, a_s, a_t, gscore, came, pq, apc, a_target, a_ret, a_s0, a_steps,
          pc, exit_cell, player, monster, coins, coins_collected, score,
          last_coins_collected, last_score, end_stats_ready, victory, game_over,
          in_key, frame_dt, gen_ret, mover, heap, list, call, arr, acall>>

\* ---------------------------------------------------------------- bounds
AstarH == 3
AstarW == 3
MazeH == 3      \* rows of the grids the generator writes
MazeW == 5      \* columns of the grids the generator writes
MaxDt == 2      \* the frame time dt is 0 .. MaxDt eighths of a second
NUM_COINS == 1  \* coins per round
MoverH == 2     \* rows of the cells a Mover on its own is sent to
MoverW == 2     \* columns of those cells
HugeDt == 8000  \* a frame time of 1000 s, in eighths of a second
LoadH == 3      \* rows of a maze.json document: 0 .. LoadH
LoadW == 5      \* length of a row of a maze.json document: 0 .. LoadW
ListCap == 3    \* nodes the linked list may hold at a time
ListVals == 2   \* the data of a node is 1 .. ListVals
ArrCap == 4     \* largest capacity a DynamicArray is asked for
ArrVals == 2    \* the values pushed are 1 .. ArrVals

\* ------------------------------------------------------------- constants
WALL == 1
ROAD == 0
INF29 == 536870912
INF30 == 1073741824
TILE == 32
PADDING == 0
PLAYER_SPEED == 160
MONSTER_SPEED == 140
COIN_VALUE == 100
PICK_RADIUS_PCT == 48   \* PICK_RADIUS = 0.48f, in hundredths of a tile
\* fixed-point scales of the float fields: all values the model produces are
\* dyadic and exact in float
PxUnit == 4     \* pixel fields count quarters of a pixel
TUnit == 128    \* Mover.t counts 1/128
DtDen == 8      \* dt counts eighths of a second

\* ------------------------------------------------------------ grid model
GridH(g) == Len(g)
GridW(g) == Len(g[1])
At(g, r, c) == g[r + 1][c + 1]
Cells(g) == (0 .. GridH(g) - 1) \X (0 .. GridW(g) - 1)
RoadCells(g) == {p \in Cells(g) : At(g, p[1], p[2]) = ROAD}

Abs(x) == IF x < 0 THEN -x ELSE x

inb(g, r, c) == 0 <= r /\ r < GridH(g) /\ 0 <= c /\ c < GridW(g)
h(t, r, c) == Abs(r - t[1]) + Abs(c - t[2])
DR == <<-1, 1, 0, 0>>
DC == <<0, 0, -1, 1>>
NoCell == <<-1, -1>>

Node(r, c, gg, f) == [r |-> r, c |-> c, g |-> gg, f |-> f]
\* variant: the queue hands out the largest f first
Cmp_LargestF(a, b) == (a.f < b.f) \/ (a.f = b.f /\ a.g > b.g)
Cmp(a, b) == (a.f > b.f) \/ (a.f = b.f /\ a.g > b.g)
\* the nodes pq.top() may return: no node is ordered before them
Tops(q) == {n \in q : \A m \in q : ~Cmp(n, m)}

\* the search state after the set-up of lines 190-195
AstarStart(g, s, t) ==
    [gscore |-> [r \in 0 .. GridH(g) - 1 |-> [c \in 0 .. GridW(g) - 1 |->
                    IF <<r, c>> = s THEN 0 ELSE INF29]],
     came   |-> [r \in 0 .. GridH(g) - 1 |-> [c \in 0 .. GridW(g) - 1 |-> NoCell]],
     pq     |-> {Node(s[1], s[2], 0, h(t, s[1], s[2]))}]

\* variant: the better g-cost of the neighbour is not recorded
RelaxOne_NoRecord(g, t, st, cur, k) ==
    LET rr == cur.r + DR[k]
        cc == cur.c + DC[k]
        ng == cur.g + 1
    IN  IF ~inb(g, rr, cc) \/ At(g, rr, cc) = WALL THEN st
        ELSE IF ng < st.gscore[rr][cc]
             THEN [gscore |-> st.gscore,
                   came   |-> [st.came EXCEPT ![rr][cc] = <<cur.r, cur.c>>],
                   pq     |-> st.pq \cup {Node(rr, cc, ng, ng + h(t, rr, cc))}]
             ELSE st
\* variant: the neighbour is relaxed without the Wall test
RelaxOne_NoWallTest(g, t, st, cur, k) ==
    LET rr == cur.r + DR[k]
        cc == cur.c + DC[k]
        ng == cur.g + 1
    IN  IF ~inb(g, rr, cc) THEN st
        ELSE IF ng < st.gscore[rr][cc]
             THEN [gscore |-> [st.gscore EXCEPT ![rr][cc] = ng],
                   came   |-> [st.came EXCEPT ![rr][cc] = <<cur.r, cur.c>>],
                   pq     |-> st.pq \cup {Node(rr, cc, ng, ng + h(t, rr, cc))}]
             ELSE st

\* one neighbour of the for loop, lines 201-209
RelaxOne(g, t, st, cur, k) ==
    LET rr == cur.r + DR[k]
        cc == cur.c + DC[k]
        ng == cur.g + 1
    IN  IF ~inb(g, rr, cc) \/ At(g, rr, cc) = WALL THEN st
        ELSE IF ng < st.gscore[rr][cc]
             THEN [gscore |-> [st.gscore EXCEPT ![rr][cc] = ng],
                   came   |-> [st.came EXCEPT ![rr][cc] = <<cur.r, cur.c>>],
                   pq     |-> st.pq \cup {Node(rr, cc, ng, ng + h(t, rr, cc))}]
             ELSE st

\* the for loop over k = 0..3, lines 200-210
Expand(g, t, st, cur) ==
    RelaxOne(g, t, RelaxOne(g, t, RelaxOne(g, t, RelaxOne(g, t, st, cur, 1),
                                                 cur, 2), cur, 3), cur, 4)

\* variant: the scan keeps the reached cell nearest to the goal (least h)
RECURSIVE BestScan_LeastH(_, _, _, _, _, _)
BestScan_LeastH(g, t, gs, i, bestf, best) ==
    IF i >= GridH(g) * GridW(g) THEN best
    ELSE LET r == i \div GridW(g)
             c == i % GridW(g)
             f == h(t, r, c)
         IN  IF gs[r][c] < INF29 /\ f < bestf
             THEN BestScan_LeastH(g, t, gs, i + 1, f, <<r, c>>)
             ELSE BestScan_LeastH(g, t, gs, i + 1, bestf, best)

\* the scan of lines 215-221: i runs over the cells in row-major order
RECURSIVE BestScan(_, _, _, _, _, _)
BestScan(g, t, gs, i, bestf, best) ==
    IF i >= GridH(g) * GridW(g) THEN best
    ELSE LET r == i \div GridW(g)
             c == i % GridW(g)
             f == gs[r][c] + h(t, r, c)
         IN  IF gs[r][c] < INF29 /\ f < bestf
             THEN BestScan(g, t, gs, i + 1, f, <<r, c>>)
             ELSE BestScan(g, t, gs, i + 1, bestf, best)

\* the while loop of lines 227-232; last is path.back(), NoCell while empty
RECURSIVE Backtrack(_, _, _, _)
Backtrack(cm, s, cur, last) ==
    IF cur = s THEN last
    ELSE LET p == cm[cur[1]][cur[2]]
         IN  IF p[1] = -1 THEN cur ELSE Backtrack(cm, s, p, cur)

\* lines 213-222: the goal, or the surrogate when the goal was not reached
AstarTarget(g, s, t, gs, cm) ==
    IF cm[t[1]][t[2]][1] = -1 THEN BestScan(g, t, gs, 0, INF30, s) ELSE t

\* lines 222-234: return the step next to s on the path to the target
AstarTail(g, s, t, gs, cm) ==
    LET target == AstarTarget(g, s, t, gs, cm)
    IN  IF cm[t[1]][t[2]][1] = -1 /\ target = s THEN s
        ELSE LET last == Backtrack(cm, s, target, NoCell)
             IN  IF last = NoCell THEN s ELSE last

\* one iteration of the while loop, lines 198-210, with cur the popped node
PopStep(g, t, st, cur) ==
    LET rest == [st EXCEPT !.pq = @ \ {cur}]
    IN  IF cur.r = t[1] /\ cur.c = t[2]
        THEN [next |-> rest, brk |-> TRUE]
        ELSE [next |-> Expand(g, t, rest, cur), brk |-> FALSE]

\* the while loop of lines 197-211: every final search state, over the orders
\* in which the queue may hand out nodes of equal priority
RECURSIVE AstarSearch(_, _, _)
AstarSearch(g, t, st) ==
    IF st.pq = {} THEN {st}
    ELSE UNION {LET nx == PopStep(g, t, st, cur)
                IN  IF nx.brk THEN {nx.next} ELSE AstarSearch(g, t, nx.next)
                : cur \in Tops(st.pq)}

\* astar_next_step as a whole, lines 174-235: the cells it may return
astar_next_step(g, s, t) ==
    IF s = t THEN {s}
    ELSE {AstarTail(g, s, t, st.gscore, st.came)
          : st \in AstarSearch(g, t, AstarStart(g, s, t))}

\* ----------------------------------------------------------------- Mover
cell_to_px_c(c) == (c * TILE + PADDING) * PxUnit
cell_to_px_r(r) == (r * TILE + PADDING) * PxUnit

\* struct Mover with its default member initialisers
Mover0 ==
    [r |-> 0, c |-> 0, tr |-> 0, tc |-> 0, x |-> 0, y |-> 0, sx |-> 0, sy |-> 0,
     tx |-> 0, ty |-> 0, t |-> 0, moving |-> FALSE, speed |-> PLAYER_SPEED]

\* variant: the pixel position is left where it was
place_at_cell_NoPixel(m, row, col) ==
    [m EXCEPT !.r = row, !.c = col, !.tr = row, !.tc = col,
              !.t = 0, !.moving = FALSE]
\* variant: the tween in flight is kept
place_at_cell_KeepTween(m, row, col) ==
    [m EXCEPT !.r = row, !.c = col, !.tr = row, !.tc = col,
              !.x = cell_to_px_c(col), !.y = cell_to_px_r(row)]
\* variant: the target cell and the Moving flag of the move in flight are kept
place_at_cell_KeepTarget(m, row, col) ==
    [m EXCEPT !.r = row, !.c = col,
              !.x = cell_to_px_c(col), !.y = cell_to_px_r(row),
              !.sx = cell_to_px_c(col), !.sy = cell_to_px_r(row), !.t = 0]
place_at_cell(m, row, col) ==
    [m EXCEPT !.r = row, !.c = col, !.tr = row, !.tc = col,
              !.x = cell_to_px_c(col), !.y = cell_to_px_r(row),
              !.sx = cell_to_px_c(col), !.tx = cell_to_px_c(col),
              !.sy = cell_to_px_r(row), !.ty = cell_to_px_r(row),
              !.t = 0, !.moving = FALSE]

start_move(m, nr, nc) ==
    [m EXCEPT !.tr = nr, !.tc = nc, !.sx = m.x, !.sy = m.y,
              !.tx = cell_to_px_c(nc), !.ty = cell_to_px_r(nr),
              !.t = 0, !.moving = TRUE]

\* variant: a tween that is not over interpolates from the current pixel
update_mover_FromCurrent(m, dt) ==
    IF ~m.moving THEN m
    ELSE LET t1 == m.t + (m.speed * dt * TUnit) \div (DtDen * TILE)
         IN  IF t1 >= TUnit
             THEN [m EXCEPT !.t = TUnit, !.moving = FALSE,
                            !.r = m.tr, !.c = m.tc, !.x = m.tx, !.y = m.ty]
             ELSE [m EXCEPT !.t = t1,
                            !.x = m.x + ((m.tx - m.x) * t1) \div TUnit,
                            !.y = m.y + ((m.ty - m.y) * t1) \div TUnit]
\* variant: the Mover arrives only when the progress has reached 2
update_mover_LateArrival(m, dt) ==
    IF ~m.moving THEN m
    ELSE LET t1 == m.t + (m.speed * dt * TUnit) \div (DtDen * TILE)
         IN  IF t1 >= 2 * TUnit
             THEN [m EXCEPT !.t = TUnit, !.moving = FALSE,
                            !.r = m.tr, !.c = m.tc, !.x = m.tx, !.y = m.ty]
             ELSE [m EXCEPT !.t = t1,
                            !.x = m.sx + ((m.tx - m.sx) * t1) \div TUnit,
                            !.y = m.sy + ((m.ty - m.sy) * t1) \div TUnit]
\* variant: a tween that is over keeps the progress it reached
update_mover_NoClamp(m, dt) ==
    IF ~m.moving THEN m
    ELSE LET t1 == m.t + (m.speed * dt * TUnit) \div (DtDen * TILE)
         IN  IF t1 >= TUnit
             THEN [m EXCEPT !.t = t1, !.moving = FALSE,
                            !.r = m.tr, !.c = m.tc, !.x = m.tx, !.y = m.ty]
             ELSE [m EXCEPT !.t = t1,
                            !.x = m.sx + ((m.tx - m.sx) * t1) \div TUnit,
                            !.y = m.sy + ((m.ty - m.sy) * t1) \div TUnit]
\* dt in 1/DtDen s; (speed * dt) / TILE in 1/TUnit
update_mover(m, dt) ==
    IF ~m.moving THEN m
    ELSE LET t1 == m.t + (m.speed * dt * TUnit) \div (DtDen * TILE)
         IN  IF t1 >= TUnit
             THEN [m EXCEPT !.t = TUnit, !.moving = FALSE,
                            !.r = m.tr, !.c = m.tc, !.x = m.tx, !.y = m.ty]
             ELSE [m EXCEPT !.t = t1,
                            !.x = m.sx + ((m.tx - m.sx) * t1) \div TUnit,
                            !.y = m.sy + ((m.ty - m.sy) * t1) \div TUnit]

\* ------------------------------------------------------------ round set-up
\* variant: every cell of the grid is walkable
walkable_AnyCell(g, r, c) == inb(g, r, c)
\* lines 240-242
walkable(g, r, c) == inb(g, r, c) /\ At(g, r, c) = ROAD

\* find_single_exit, first loop (lines 77-80): columns c .. W-1
RECURSIVE ExitsOfCols(_, _)
ExitsOfCols(g, c) ==
    IF c >= GridW(g) THEN <<>>
    ELSE (IF At(g, 0, c) = ROAD THEN <<(<<0, c>>)>> ELSE <<>>)
         \o (IF At(g, GridH(g) - 1, c) = ROAD THEN <<(<<GridH(g) - 1, c>>)>> ELSE <<>>)
         \o ExitsOfCols(g, c + 1)

\* find_single_exit, second loop (lines 81-84): rows r .. H-1
RECURSIVE ExitsOfRows(_, _)
ExitsOfRows(g, r) ==
    IF r >= GridH(g) THEN <<>>
    ELSE (IF At(g, r, 0) = ROAD THEN <<(<<r, 0>>)>> ELSE <<>>)
         \o (IF At(g, r, GridW(g) - 1) = ROAD THEN <<(<<r, GridW(g) - 1>>)>> ELSE <<>>)
         \o ExitsOfRows(g, r + 1)

\* the vector exits of find_single_exit at line 85
exits(g) == ExitsOfCols(g, 0) \o ExitsOfRows(g, 0)
\* find_single_exit throws (line 85)
ExitThrows(g) == Len(exits(g)) # 1
find_single_exit(g) == exits(g)[1]

\* lines 294-296 and 353-355: the spawn pairs the resampling loop can end with
\* after pspawn = p was drawn
MSpawns(g, ex, p) == RoadCells(g) \ {p, ex}

\* variant: the set used is not consulted
RECURSIVE CoinVectors_NoUsed(_, _, _)
CoinVectors_NoUsed(g, used, n) ==
    IF n = 0 THEN {<<>>}
    ELSE UNION {{<<[r |-> cs[1], c |-> cs[2], collected |-> FALSE]>> \o rest
                 : rest \in CoinVectors_NoUsed(g, used, n - 1)}
                : cs \in RoadCells(g)}
\* respawn_coins, lines 313-324: the coin vectors it can build; none when the
\* inner while loop cannot find an unused Road cell
RECURSIVE CoinVectors(_, _, _)
CoinVectors(g, used, n) ==
    IF n = 0 THEN {<<>>}
    ELSE UNION {{<<[r |-> cs[1], c |-> cs[2], collected |-> FALSE]>> \o rest
                 : rest \in CoinVectors(g, used \cup {cs}, n - 1)}
                : cs \in RoadCells(g) \ used}

\* the grids the external generator (or a maze.json on disk) supplies: any
\* MazeH x MazeW grid with at most one Road cell on its border
GenBorder ==
    {p \in (0 .. MazeH - 1) \X (0 .. MazeW - 1) :
        p[1] = 0 \/ p[1] = MazeH - 1 \/ p[2] = 0 \/ p[2] = MazeW - 1}
GenInterior == ((0 .. MazeH - 1) \X (0 .. MazeW - 1)) \ GenBorder
GenGrids ==
    {[r \in 1 .. MazeH |-> [c \in 1 .. MazeW |->
          IF <<r - 1, c - 1>> \in roads THEN ROAD ELSE WALL]]
     : roads \in {I \cup B : I \in SUBSET GenInterior,
                              B \in {{}} \cup {{b} : b \in GenBorder}}}

\* what the set-up of a round on grid g can come to (lines 293-325 and
\* 350-360): "throw" when find_single_exit throws, "hang" when a resampling
\* loop has no cell left to end on, else the exit, the spawns and the coins
SetupOutcome(kind, ex, p, m, cv) ==
    [kind |-> kind, ex |-> ex, p |-> p, m |-> m, cv |-> cv]
SetupOutcomes(g) ==
    IF ExitThrows(g) THEN {SetupOutcome("throw", NoCell, NoCell, NoCell, <<>>)}
    ELSE LET ex == find_single_exit(g)
         IN  UNION {
               IF MSpawns(g, ex, p) = {}
               THEN {SetupOutcome("hang", NoCell, NoCell, NoCell, <<>>)}
               ELSE UNION {
                      IF CoinVectors(g, {p, m, ex}, NUM_COINS) = {}
                      THEN {SetupOutcome("hang", NoCell, NoCell, NoCell, <<>>)}
                      ELSE {SetupOutcome("ok", ex, p, m, cv)
                            : cv \in CoinVectors(g, {p, m, ex}, NUM_COINS)}
                      : m \in MSpawns(g, ex, p)}
               : p \in RoadCells(g)}

\* ------------------------------------------------- C2/link_list.cpp
NULL == 0
NodeIds == 1 .. ListCap
\* memory no node lives in
FreeNode == [data |-> 0, next |-> NULL, live |-> FALSE]
\* malloc: any block not in use
malloc(mem) == {i \in NodeIds : ~mem[i].live}

\* new_linked_list: an empty list, and no node allocated yet
new_linked_list ==
    /\ heap = [i \in NodeIds |-> FreeNode]
    /\ list = [first |-> NULL, last |-> NULL]
    /\ call = [op |-> "none", position |-> 0, data |-> 0]

\* add_node with new_node = nn
add_node(mem, lst, data, nn) ==
    LET m1 == [mem EXCEPT ![nn] = [data |-> data, next |-> NULL, live |-> TRUE]]
    IN  IF lst.first = NULL
        THEN [heap |-> m1, list |-> [first |-> nn, last |-> nn]]
        ELSE [heap |-> [m1 EXCEPT ![lst.last].next = nn],
              list |-> [lst EXCEPT !.last = nn]]

\* the loop of insert_at and of delete_at: current when the loop is left
RECURSIVE Walk(_, _, _, _)
Walk(mem, current, index, position) ==
    IF mem[current].next # NULL /\ index < position - 1
    THEN Walk(mem, mem[current].next, index + 1, position)
    ELSE current

\* variant: last is left alone when the node goes in behind the tail
insert_at_KeepLast(mem, lst, position, data, nn) ==
    LET m1 == [mem EXCEPT ![nn] = [data |-> data, next |-> NULL, live |-> TRUE]]
    IN  IF position <= 0 \/ lst.first = NULL
        THEN [heap |-> [m1 EXCEPT ![nn].next = lst.first],
              list |-> [first |-> nn,
                        last |-> IF lst.last = NULL THEN nn ELSE lst.last]]
        ELSE LET current == Walk(m1, lst.first, 0, position)
             IN  [heap |-> [m1 EXCEPT ![nn].next = m1[current].next,
                                      ![current].next = nn],
                  list |-> lst]
\* variant: the head case is taken on position < 0 only
insert_at_HeadBelowZero(mem, lst, position, data, nn) ==
    LET m1 == [mem EXCEPT ![nn] = [data |-> data, next |-> NULL, live |-> TRUE]]
    IN  IF position < 0 \/ lst.first = NULL
        THEN [heap |-> [m1 EXCEPT ![nn].next = lst.first],
              list |-> [first |-> nn,
                        last |-> IF lst.last = NULL THEN nn ELSE lst.last]]
        ELSE LET current == Walk(m1, lst.first, 0, position)
                 m2 == [m1 EXCEPT ![nn].next = m1[current].next,
                                  ![current].next = nn]
             IN  [heap |-> m2,
                  list |-> [lst EXCEPT !.last = IF m2[nn].next = NULL
                                                THEN nn ELSE lst.last]]
\* insert_at with new_node = nn
insert_at(mem, lst, position, data, nn) ==
    LET m1 == [mem EXCEPT ![nn] = [data |-> data, next |-> NULL, live |-> TRUE]]
    IN  IF position <= 0 \/ lst.first = NULL
        THEN [heap |-> [m1 EXCEPT ![nn].next = lst.first],
              list |-> [first |-> nn,
                        last |-> IF lst.last = NULL THEN nn ELSE lst.last]]
        ELSE LET current == Walk(m1, lst.first, 0, position)
                 m2 == [m1 EXCEPT ![nn].next = m1[current].next,
                                  ![current].next = nn]
             IN  [heap |-> m2,
                  list |-> [lst EXCEPT !.last = IF m2[nn].next = NULL
                                                THEN nn ELSE lst.last]]

\* variant: a position past the end deletes the head
delete_at_HeadWhenPastEnd(mem, lst, position) ==
    IF lst.first = NULL THEN [heap |-> mem, list |-> lst]
    ELSE IF position <= 0 \/ mem[Walk(mem, lst.first, 0, position)].next = NULL
    THEN LET nf == mem[lst.first].next
         IN  [heap |-> [mem EXCEPT ![lst.first] = FreeNode],
              list |-> [first |-> nf,
                        last |-> IF nf = NULL THEN NULL ELSE lst.last]]
    ELSE LET current == Walk(mem, lst.first, 0, position)
             to_delete == mem[current].next
         IN  [heap |-> [mem EXCEPT ![current].next = mem[to_delete].next,
                                   ![to_delete] = FreeNode],
              list |-> [lst EXCEPT !.last = IF to_delete = lst.last
                                            THEN current ELSE lst.last]]
\* delete_at
delete_at(mem, lst, position) ==
    IF lst.first = NULL THEN [heap |-> mem, list |-> lst]
    ELSE IF position <= 0
    THEN LET nf == mem[lst.first].next
         IN  [heap |-> [mem EXCEPT ![lst.first] = FreeNode],
              list |-> [first |-> nf,
                        last |-> IF nf = NULL THEN NULL ELSE lst.last]]
    ELSE LET current == Walk(mem, lst.first, 0, position)
         IN  IF mem[current].next = NULL THEN [heap |-> mem, list |-> lst]
             ELSE LET to_delete == mem[current].next
                  IN  [heap |-> [mem EXCEPT ![current].next = mem[to_delete].next,
                                            ![to_delete] = FreeNode],
                       list |-> [lst EXCEPT !.last = IF to_delete = lst.last
                                                     THEN current ELSE lst.last]]

\* traverse_list: the data from the head to the tail
RECURSIVE Traverse(_, _, _)
Traverse(mem, current, fuel) ==
    IF current = NULL \/ fuel = 0 THEN <<>>
    ELSE <<mem[current].data>> \o Traverse(mem, mem[current].next, fuel - 1)
traverse_list(mem, lst) == Traverse(mem, lst.first, ListCap + 1)

\* delete_linked_list: every node is freed, then the list itself
delete_linked_list(mem, lst) ==
    [heap |-> [i \in NodeIds |-> FreeNode],
     list |-> [first |-> NULL, last |-> NULL]]

\* ------------------------------------------------ C2/dynamic array.hpp
\* an int of a fresh buffer that nothing was written to
Junk == 0
\* new (std::nothrow) int[n] when the allocation succeeds
NewInts(n) == [i \in 1 .. n |-> Junk]

\* a DynamicArray that no buffer belongs to
NoArray ==
    /\ arr = [data |-> <<>>, size |-> 0, capacity |-> 0]
    /\ acall = [op |-> "none", value |-> 0, ret |-> TRUE, wrote |-> -1]

\* init_array; ok tells whether the allocation succeeds
init_array(a, initial_capacity, ok) ==
    LET cap == IF initial_capacity > 0 THEN initial_capacity ELSE 1
    IN  IF ok THEN [data |-> NewInts(cap), size |-> 0, capacity |-> cap]
        ELSE [data |-> <<>>, size |-> 0, capacity |-> 0]

\* free_array
free_array(a) == [data |-> <<>>, size |-> 0, capacity |-> 0]

\* resize_array; ok tells whether the allocation succeeds
resize_array(a, new_capacity, ok) ==
    IF new_capacity <= a.capacity THEN [arr |-> a, ret |-> TRUE]
    ELSE IF ~ok THEN [arr |-> a, ret |-> FALSE]
    ELSE [arr |-> [data |-> [i \in 1 .. new_capacity |->
                                IF i <= a.size THEN a.data[i] ELSE Junk],
                   size |-> a.size, capacity |-> new_capacity],
          ret |-> TRUE]

\* push_back; wrote is the index line 71 writes at, and fault tells that
\* this write goes through a null pointer or past the end of the buffer
push_back(a, value, ok) ==
    LET rs == IF a.size >= a.capacity
              THEN resize_array(a, a.capacity * 2, ok)
              ELSE [arr |-> a, ret |-> TRUE]
        a1 == rs.arr
    IN  IF ~rs.ret
        THEN [arr |-> a1, ret |-> FALSE, wrote |-> -1, fault |-> FALSE]
        ELSE IF a1.size >= Len(a1.data)
        THEN [arr |-> [a1 EXCEPT !.size = @ + 1], ret |-> TRUE,
              wrote |-> a1.size, fault |-> TRUE]
        ELSE [arr |-> [a1 EXCEPT !.data[a1.size + 1] = value, !.size = @ + 1],
              ret |-> TRUE, wrote |-> a1.size, fault |-> FALSE]

\* the round variables hold nothing: before the set-up and after main is left
NoRound(p) ==
    /\ pc = p
    /\ exit_cell = NoCell
    /\ player = Mover0
    /\ monster = Mover0
    /\ coins = <<>>
    /\ coins_collected = 0
    /\ score = 0
    /\ last_coins_collected = 0
    /\ last_score = 0
    /\ end_stats_ready = FALSE
    /\ victory = FALSE
    /\ game_over = FALSE
    /\ in_key = "none"
    /\ frame_dt = 0
    /\ gen_ret = "none"

\* ----------------------------------------------- astar_next_step, stepwise
AstarGrids == [1 .. AstarH -> [1 .. AstarW -> {ROAD, WALL}]]

AstarInit ==
    /\ maze \in AstarGrids
    /\ a_s \in RoadCells(maze)
    /\ a_t \in RoadCells(maze)
    /\ a_s0 = a_s
    /\ a_steps = 0
    /\ apc = "call"
    /\ gscore = <<>>
    /\ came = <<>>
    /\ pq = {}
    /\ a_target = NoCell
    /\ a_ret = NoCell
    /\ NoRound("start")
    /\ mover = Mover0
    /\ new_linked_list
    /\ NoArray

\* lines 176-195
AstarCall ==
    /\ apc = "call"
    /\ IF a_s = a_t
       THEN /\ apc' = "done"
            /\ a_ret' = a_s
            /\ UNCHANGED <<gscore, came, pq, a_target>>
       ELSE LET st == AstarStart(maze, a_s, a_t)
            IN  /\ apc' = "search"
                /\ gscore' = st.gscore
                /\ came' = st.came
                /\ pq' = st.pq
                /\ UNCHANGED <<a_target, a_ret>>
    /\ UNCHANGED <<maze, a_s, a_t, a_s0, a_steps>>
    /\ UNCHANGED <<gvars, mover, lvars, dvars>>

\* one iteration of the while loop, lines 197-211
AstarPop ==
    /\ apc = "search"
    /\ pq # {}
    /\ \E cur \in Tops(pq) :
          LET nx == PopStep(maze, a_t,
                            [gscore |-> gscore, came |-> came, pq |-> pq], cur)
          IN  /\ gscore' = nx.next.gscore
              /\ came' = nx.next.came
              /\ pq' = nx.next.pq
              /\ apc' = IF nx.brk THEN "tail" ELSE "search"
    /\ UNCHANGED <<maze, a_s, a_t, a_target, a_ret, a_s0, a_steps>>
    /\ UNCHANGED <<gvars, mover, lvars, dvars>>

\* the loop ends with an empty queue, line 197
AstarExhausted ==
    /\ apc = "search"
    /\ pq = {}
    /\ apc' = "tail"
    /\ UNCHANGED <<maze, a_s, a_t, gscore, came, pq, a_target, a_ret, a_s0, a_steps>>
    /\ UNCHANGED <<gvars, mover, lvars, dvars>>

\* lines 213-234
AstarReturn ==
    /\ apc = "tail"
    /\ a_target' = AstarTarget(maze, a_s, a_t, gscore, came)
    /\ a_ret' = AstarTail(maze, a_s, a_t, gscore, came)
    /\ apc' = "done"
    /\ UNCHANGED <<maze, a_s, a_t, gscore, came, pq, a_s0, a_steps>>
    /\ UNCHANGED <<gvars, mover, lvars, dvars>>

\* the caller moves to the returned cell and plans again for the same goal
\* (lines 392-396 with the goal held fixed)
AstarAgain ==
    /\ apc = "done"
    /\ a_ret # a_s
    /\ a_s' = a_ret
    /\ a_steps' = a_steps + 1
    /\ apc' = "call"
    /\ gscore' = <<>>
    /\ came' = <<>>
    /\ pq' = {}
    /\ a_target' = NoCell
    /\ a_ret' = NoCell
    /\ UNCHANGED <<maze, a_t, a_s0>>
    /\ UNCHANGED <<gvars, mover, lvars, dvars>>

AstarNext ==
    \/ AstarCall
    \/ AstarPop
    \/ AstarExhausted
    \/ AstarReturn
    \/ AstarAgain

SpecAstar == AstarInit /\ [][AstarNext]_vars

\* ------------------------------------------------- a Mover on its own
\* place_at_cell, start_move and update_mover called on one Mover in any
\* order with any cell and any frame time; a start_move in the middle of a
\* move (main never makes one) leaves pixel values that are rounded down to
\* the quarter pixel here
MoverCells == (0 .. MoverH - 1) \X (0 .. MoverW - 1)
MoverDts == (0 .. MaxDt) \cup {HugeDt}

\* Mover m; m.speed = ... (lines 298-302)
MoverInit ==
    /\ mover \in {[Mover0 EXCEPT !.speed = sp]
                   : sp \in {PLAYER_SPEED, MONSTER_SPEED}}
    /\ maze = <<>>
    /\ a_s = NoCell
    /\ a_t = NoCell
    /\ a_s0 = NoCell
    /\ a_steps = 0
    /\ apc = "off"
    /\ gscore = <<>>
    /\ came = <<>>
    /\ pq = {}
    /\ a_target = NoCell
    /\ a_ret = NoCell
    /\ NoRound("start")
    /\ new_linked_list
    /\ NoArray

MoverPlace ==
    /\ \E p \in MoverCells : mover' = place_at_cell(mover, p[1], p[2])
    /\ UNCHANGED <<maze, avars, gvars, lvars, dvars>>

MoverStart ==
    /\ \E p \in MoverCells : mover' = start_move(mover, p[1], p[2])
    /\ UNCHANGED <<maze, avars, gvars, lvars, dvars>>

MoverAdvance ==
    /\ \E dt \in MoverDts : mover' = update_mover(mover, dt)
    /\ UNCHANGED <<maze, avars, gvars, lvars, dvars>>

MoverNext ==
    \/ MoverPlace
    \/ MoverStart
    \/ MoverAdvance

SpecMover == MoverInit /\ [][MoverNext]_vars

\* ------------------------------------------------------------ main, rounds
\* main is left (return 0, return 1 from the catch block) or spins for ever in
\* a resampling loop: its locals are not used again
Leave(p) ==
    /\ pc' = p
    /\ exit_cell' = NoCell
    /\ player' = Mover0
    /\ monster' = Mover0
    /\ coins' = <<>>
    /\ coins_collected' = 0
    /\ score' = 0
    /\ last_coins_collected' = 0
    /\ last_score' = 0
    /\ end_stats_ready' = FALSE
    /\ victory' = FALSE
    /\ game_over' = FALSE

\* variant: a coin that is already collected is counted again
RECURSIVE PickCoins_Recount(_, _, _)
PickCoins_Recount(st, p, i) ==
    IF i > Len(st.coins) THEN st
    ELSE LET coin == st.coins[i]
             dx == p.x - cell_to_px_c(coin.c)
             dy == p.y - cell_to_px_r(coin.r)
             rad100 == PICK_RADIUS_PCT * TILE * PxUnit
         IN  IF dx * dx + dy * dy <= (rad100 * rad100) \div 10000
             THEN PickCoins_Recount(
                      [coins |-> [st.coins EXCEPT ![i].collected = TRUE],
                       coins_collected |-> st.coins_collected + 1,
                       score |-> st.score + COIN_VALUE], p, i + 1)
             ELSE PickCoins_Recount(st, p, i + 1)
\* variant: every uncollected coin is picked up, wherever it lies
RECURSIVE PickCoins_NoRadius(_, _, _)
PickCoins_NoRadius(st, p, i) ==
    IF i > Len(st.coins) THEN st
    ELSE IF ~st.coins[i].collected
         THEN PickCoins_NoRadius(
                  [coins |-> [st.coins EXCEPT ![i].collected = TRUE],
                   coins_collected |-> st.coins_collected + 1,
                   score |-> st.score + COIN_VALUE], p, i + 1)
         ELSE PickCoins_NoRadius(st, p, i + 1)
\* the player's coin pickup, lines 407-421, from coin i on; st carries coins,
\* coins_collected and score
RECURSIVE PickCoins(_, _, _)
PickCoins(st, p, i) ==
    IF i > Len(st.coins) THEN st
    ELSE LET coin == st.coins[i]
             px == p.x + (TILE * PxUnit) \div 2
             py == p.y + (TILE * PxUnit) \div 2
             cx == cell_to_px_c(coin.c) + (TILE * PxUnit) \div 2
             cy == cell_to_px_r(coin.r) + (TILE * PxUnit) \div 2
             dx == px - cx
             dy == py - cy
             rad100 == PICK_RADIUS_PCT * TILE * PxUnit
         IN  IF ~coin.collected /\ dx * dx + dy * dy <= (rad100 * rad100) \div 10000
             THEN PickCoins([coins |-> [st.coins EXCEPT ![i].collected = TRUE],
                             coins_collected |-> st.coins_collected + 1,
                             score |-> st.score + COIN_VALUE], p, i + 1)
             ELSE PickCoins(st, p, i + 1)

\* the key the else-if chain of lines 381-384 acts on
KeyDir(key) ==
    CASE key = "W" -> <<-1, 0>>
      [] key = "S" -> <<1, 0>>
      [] key = "A" -> <<0, -1>>
      [] key = "D" -> <<0, 1>>
      [] OTHER -> <<0, 0>>

Init ==
    /\ maze = <<>>
    /\ a_s = NoCell
    /\ a_t = NoCell
    /\ a_s0 = NoCell
    /\ a_steps = 0
    /\ apc = "off"
    /\ gscore = <<>>
    /\ came = <<>>
    /\ pq = {}
    /\ a_target = NoCell
    /\ a_ret = NoCell
    /\ NoRound("start")
    /\ mover = Mover0
    /\ new_linked_list
    /\ NoArray

\* lines 293-327: the first round is set up on grid g
SetUpRound(g) ==
    \E o \in SetupOutcomes(g) :
       CASE o.kind = "throw" -> Leave("exit1")
         [] o.kind = "hang" -> Leave("hung")
         [] OTHER ->
              /\ pc' = "loop"
              /\ exit_cell' = o.ex
              /\ player' = [place_at_cell(Mover0, o.p[1], o.p[2])
                               EXCEPT !.speed = PLAYER_SPEED]
              /\ monster' = [place_at_cell(Mover0, o.m[1], o.m[2])
                               EXCEPT !.speed = MONSTER_SPEED]
              /\ coins' = o.cv
              /\ coins_collected' = 0
              /\ score' = 0
              /\ last_coins_collected' = 0
              /\ last_score' = 0
              /\ end_stats_ready' = FALSE
              /\ victory' = FALSE
              /\ game_over' = FALSE

\* lines 246-327: load the maze and set up the first round
Start ==
    /\ pc = "start"
    /\ \E g \in GenGrids :
          /\ maze' = g
          /\ SetUpRound(g)
    /\ UNCHANGED <<avars, in_key, frame_dt, gen_ret, mover, lvars, dvars>>

\* the loop condition of line 369 ends the session
Close ==
    /\ pc = "loop"
    /\ Leave("exit0")
    /\ UNCHANGED <<maze, avars, in_key, frame_dt, gen_ret, mover, lvars, dvars>>

\* variant: the key sends the player two cells on
InputMove_TwoCells(g, p, playing, key) ==
    LET dr == KeyDir(key)[1]
        dc == KeyDir(key)[2]
        nr == p.r + 2 * dr
        nc == p.c + 2 * dc
    IN  IF ~p.moving /\ playing /\ (dr # 0 \/ dc # 0) /\ walkable(g, nr, nc)
        THEN start_move(p, nr, nc) ELSE p
\* variant: the key starts a move whether or not the player is moving
InputMove_NoIdleTest(g, p, playing, key) ==
    LET dr == KeyDir(key)[1]
        dc == KeyDir(key)[2]
        nr == p.r + dr
        nc == p.c + dc
    IN  IF playing /\ (dr # 0 \/ dc # 0) /\ walkable(g, nr, nc)
        THEN start_move(p, nr, nc) ELSE p
\* lines 379-389: the player's move for the key held down
InputMove(g, p, playing, key) ==
    LET dr == KeyDir(key)[1]
        dc == KeyDir(key)[2]
        nr == p.r + dr
        nc == p.c + dc
    IN  IF ~p.moving /\ playing /\ (dr # 0 \/ dc # 0) /\ walkable(g, nr, nc)
        THEN start_move(p, nr, nc) ELSE p

\* variant: the planner hands the monster its own cell
MonsterSteps_Stay(g, m, p, playing) == {<<m.r, m.c>>}
\* variant: the monster plans towards the cell the player is moving to
MonsterSteps_ToTarget(g, m, p, playing) ==
    IF ~m.moving /\ playing
    THEN astar_next_step(g, <<m.r, m.c>>, <<p.tr, p.tc>>)
    ELSE {<<m.r, m.c>>}
\* lines 392-393: the cells the planner may hand to the monster this frame
MonsterSteps(g, m, p, playing) ==
    IF ~m.moving /\ playing
    THEN astar_next_step(g, <<m.r, m.c>>, <<p.r, p.c>>)
    ELSE {<<m.r, m.c>>}

\* lines 392-397: the monster starts towards step unless it is its own cell
MonsterAI(m, playing, step) ==
    IF ~m.moving /\ playing /\ step # <<m.r, m.c>>
    THEN start_move(m, step[1], step[2]) ELSE m

\* variant: the tween runs in every frame
Tween_Always(m, playing, dt) == update_mover(m, dt)
\* lines 400-403
Tween(m, playing, dt) == IF playing THEN update_mover(m, dt) ELSE m

\* lines 425-428
WinCheck(p, ex, playing, v) ==
    IF playing /\ ~p.moving /\ p.r = ex[1] /\ p.c = ex[2] THEN TRUE ELSE v

\* lines 425, 429-431
LoseCheck(p, m, playing, go) ==
    IF playing /\ ~p.moving /\ ~m.moving /\ p.r = m.r /\ p.c = m.c
    THEN TRUE ELSE go

\* variant: the statistics are copied in every frame
FrozenStat_EveryFrame(v, go, ready, live, last) == live
\* lines 435-439: one of last_coins_collected / last_score after the frame
FrozenStat(v, go, ready, live, last) ==
    IF (v \/ go) /\ ~ready THEN live ELSE last

\* lines 373-376: the time since the previous frame, an ordinary frame time
\* or a stall, is dt as it stands
FrameDts == (0 .. MaxDt) \cup {HugeDt}

\* the keys the input step looks at, lines 381-384
MoveKeys == {"none", "W", "S", "A", "D"}

\* one frame up to the frozen statistics, lines 371-439, with its frame
\* time among dts (in 1/DtDen s) and the key held down among keys
Frame(dts, keys) ==
    /\ pc = "loop"
    /\ \E dt \in dts, key \in keys :
          LET playing == ~victory /\ ~game_over
              p1 == InputMove(maze, player, playing, key)
          IN  \E step \in MonsterSteps(maze, monster, p1, playing) :
                LET m1 == MonsterAI(monster, playing, step)
                    p2 == Tween(p1, playing, dt)
                    m2 == Tween(m1, playing, dt)
                    st0 == [coins |-> coins, coins_collected |-> coins_collected,
                            score |-> score]
                    st1 == IF playing THEN PickCoins(st0, p2, 1) ELSE st0
                    v1 == WinCheck(p2, exit_cell, playing, victory)
                    g1 == LoseCheck(p2, m2, playing, game_over)
                IN  /\ frame_dt' = dt
                    /\ gen_ret' = "none"
                    /\ player' = p2
                    /\ monster' = m2
                    /\ coins' = st1.coins
                    /\ coins_collected' = st1.coins_collected
                    /\ score' = st1.score
                    /\ victory' = v1
                    /\ game_over' = g1
                    /\ last_coins_collected' =
                          FrozenStat(v1, g1, end_stats_ready, st1.coins_collected,
                                     last_coins_collected)
                    /\ last_score' =
                          FrozenStat(v1, g1, end_stats_ready, st1.score, last_score)
                    /\ end_stats_ready' = (end_stats_ready \/ v1 \/ g1)
    /\ pc' = "render"
    /\ in_key' = "none"
    /\ UNCHANGED <<maze, exit_cell, avars, mover, lvars, dvars>>

Update == Frame(FrameDts, MoveKeys)

\* reset_round, lines 330-365, when the generator has written grid g
reset_round(g) ==
    /\ maze' = g
    /\ \E o \in SetupOutcomes(g) :
          CASE o.kind = "throw" -> Leave("exit1")
            [] o.kind = "hang" -> Leave("hung")
            [] OTHER ->
                 /\ pc' = "loop"
                 /\ exit_cell' = o.ex
                 /\ player' = place_at_cell(player, o.p[1], o.p[2])
                 /\ monster' = place_at_cell(monster, o.m[1], o.m[2])
                 /\ coins' = o.cv
                 /\ coins_collected' = 0
                 /\ score' = 0
                 /\ victory' = FALSE
                 /\ game_over' = FALSE
                 /\ end_stats_ready' = FALSE
                 /\ UNCHANGED <<last_coins_collected, last_score>>

\* reset_round when both generator runs of lines 339-348 fail: ret is not
\* looked at again, and line 350 loads the maze.json that is there, the one
\* the current maze came from, unless the failed run left an unreadable file
\* behind and load_maze throws
GeneratorFails ==
    /\ gen_ret' = "failed"
    /\ \/ reset_round(maze)
       \/ Leave("exit1") /\ UNCHANGED maze

\* variant: Y restarts in every frame
RestartKey_AnyFrame(v, go, key) == key = "Y"
\* lines 479 and 492: the end screen is up and Y was typed
RestartKey(v, go, key) == (v \/ go) /\ key = "Y"

\* lines 479 and 493: the end screen is up and N or ESC was typed
QuitKey(v, go, key) == (v \/ go) /\ key \in {"N", "ESC"}

\* the keys the end screen looks at, lines 492-493
EndKeys == {"none", "Y", "N", "ESC"}

\* the rest of the frame, lines 441-496; key, among keys, is the key typed
\* in this frame
Render(keys) ==
    /\ pc = "render"
    /\ \E key \in keys :
          /\ in_key' = IF victory \/ game_over THEN key ELSE "none"
          /\ IF RestartKey(victory, game_over, key)
             THEN \/ \E g \in GenGrids : reset_round(g) /\ gen_ret' = "ok"
                  \/ GeneratorFails
             ELSE IF QuitKey(victory, game_over, key)
             THEN Leave("exit0") /\ UNCHANGED <<maze, gen_ret>>
             ELSE pc' = "loop"
                  /\ UNCHANGED <<maze, exit_cell, player, monster, coins,
                                 coins_collected, score, last_coins_collected,
                                 last_score, end_stats_ready, victory, game_over,
                                 gen_ret>>
    /\ frame_dt' = 0
    /\ UNCHANGED <<avars, mover, lvars, dvars>>

EndScreen == Render(EndKeys)

Next ==
    \/ Start
    \/ Close
    \/ Update
    \/ EndScreen

Spec == Init /\ [][Next]_vars

\* ---------------------- main, one round with a player who holds no move key
\* a frame in which no move key is down
IdleUpdate == Frame(FrameDts, {"none"})
\* such a frame that comes a positive time after the previous one
PositiveTick == Frame(FrameDts \ {0}, {"none"})

\* the rest of such a frame: the round is not restarted
IdleRender == Render(EndKeys \ {"Y"})

IdleNext ==
    \/ Start
    \/ Close
    \/ IdleUpdate
    \/ IdleRender

\* the loop of line 369 goes round as long as the window is open: a frame
\* is always followed by its rendering, and frames with dt > 0 keep coming
SpecIdle ==
    /\ Init /\ [][IdleNext]_vars
    /\ WF_vars(IdleRender)
    /\ SF_vars(PositiveTick)

\* --------------------------------------- load_maze and find_single_exit
\* any maze.json that is an array of arrays of 0 and 1: the rows need not
\* have the same length
LoadRows == UNION {[1 .. w -> {ROAD, WALL}] : w \in 0 .. LoadW}
LoadDocs == UNION {[1 .. hh -> LoadRows] : hh \in 0 .. LoadH}

\* find_single_exit (and random_road after it) reads g[r][c] for c < W =
\* g[0].size() in every row and g[r][0], g[r][W-1] in every row: a read past
\* the end of a row unless every row has W >= 1 cells or more
ReadsOutOfRange(g) ==
    GridW(g) = 0 \/ \E r \in 1 .. Len(g) : Len(g[r]) < GridW(g)

LoadInit ==
    /\ maze \in LoadDocs
    /\ a_s = NoCell
    /\ a_t = NoCell
    /\ a_s0 = NoCell
    /\ a_steps = 0
    /\ apc = "off"
    /\ gscore = <<>>
    /\ came = <<>>
    /\ pq = {}
    /\ a_target = NoCell
    /\ a_ret = NoCell
    /\ NoRound("load")
    /\ mover = Mover0
    /\ new_linked_list
    /\ NoArray

\* load_maze, lines 53-70, on a document that is an array: it throws when
\* the array is empty (line 59) and copies the rows otherwise
LoadMaze ==
    /\ pc = "load"
    /\ IF maze = <<>>
       THEN Leave("exit1")
       ELSE /\ pc' = "find"
            /\ UNCHANGED <<exit_cell, player, monster, coins, coins_collected,
                           score, last_coins_collected, last_score,
                           end_stats_ready, victory, game_over>>
    /\ UNCHANGED <<maze, avars, in_key, frame_dt, gen_ret, mover, lvars, dvars>>

\* find_single_exit at line 293; after a read past the end of a row the
\* program may crash, throw, or go on with what it read ("ub")
LoadFindExit ==
    /\ pc = "find"
    /\ IF ReadsOutOfRange(maze)
       THEN pc' \in {"crash", "exit1", "ub"} /\ UNCHANGED exit_cell
       ELSE IF ExitThrows(maze)
       THEN pc' = "exit1" /\ UNCHANGED exit_cell
       ELSE pc' = "found" /\ exit_cell' = find_single_exit(maze)
    /\ UNCHANGED <<player, monster, coins, coins_collected, score,
                   last_coins_collected, last_score, end_stats_ready, victory,
                   game_over>>
    /\ UNCHANGED <<maze, avars, in_key, frame_dt, gen_ret, mover, lvars, dvars>>

\* lines 294-327 on the grid whose exit was found
LoadSetup ==
    /\ pc = "found"
    /\ SetUpRound(maze)
    /\ UNCHANGED <<maze, avars, in_key, frame_dt, gen_ret, mover, lvars, dvars>>

LoadNext ==
    \/ LoadMaze
    \/ LoadFindExit
    \/ LoadSetup

SpecLoad == LoadInit /\ [][LoadNext]_vars

\* --------------------------------------- C2/link_list.cpp, the menu of main
ListData == 1 .. ListVals
\* the positions the menu hands over: below 0, inside and past the end
ListPositions == -1 .. ListCap + 1

ListInit ==
    /\ new_linked_list
    /\ NoArray
    /\ maze = <<>>
    /\ a_s = NoCell
    /\ a_t = NoCell
    /\ a_s0 = NoCell
    /\ a_steps = 0
    /\ apc = "off"
    /\ gscore = <<>>
    /\ came = <<>>
    /\ pq = {}
    /\ a_target = NoCell
    /\ a_ret = NoCell
    /\ NoRound("menu")
    /\ mover = Mover0

\* option 1
ListAdd ==
    /\ pc = "menu"
    /\ \E data \in ListData, nn \in malloc(heap) :
          LET res == add_node(heap, list, data, nn)
          IN  /\ heap' = res.heap
              /\ list' = res.list
              /\ call' = [op |-> "add_node", position |-> 0, data |-> data]
    /\ UNCHANGED <<maze, avars, gvars, mover, dvars>>

\* option 2
ListInsert ==
    /\ pc = "menu"
    /\ \E position \in ListPositions, data \in ListData, nn \in malloc(heap) :
          LET res == insert_at(heap, list, position, data, nn)
          IN  /\ heap' = res.heap
              /\ list' = res.list
              /\ call' = [op |-> "insert_at", position |-> position,
                          data |-> data]
    /\ UNCHANGED <<maze, avars, gvars, mover, dvars>>

\* option 3
ListDelete ==
    /\ pc = "menu"
    /\ \E position \in ListPositions :
          LET res == delete_at(heap, list, position)
          IN  /\ heap' = res.heap
              /\ list' = res.list
              /\ call' = [op |-> "delete_at", position |-> position, data |-> 0]
    /\ UNCHANGED <<maze, avars, gvars, mover, dvars>>

\* option 5: the list is deleted and the menu is left
ListDeleteAll ==
    /\ pc = "menu"
    /\ LET res == delete_linked_list(heap, list)
       IN  /\ heap' = res.heap
           /\ list' = res.list
           /\ call' = [op |-> "delete_linked_list", position |-> 0, data |-> 0]
    /\ Leave("exit0")
    /\ UNCHANGED <<maze, avars, in_key, frame_dt, gen_ret, mover, dvars>>

\* option 0: the menu is left with the list as it is
ListQuit ==
    /\ pc = "menu"
    /\ Leave("exit0")
    /\ call' = [op |-> "none", position |-> 0, data |-> 0]
    /\ UNCHANGED <<maze, avars, in_key, frame_dt, gen_ret, mover, heap, list, dvars>>

ListNext ==
    \/ ListAdd
    \/ ListInsert
    \/ ListDelete
    \/ ListDeleteAll
    \/ ListQuit

SpecList == ListInit /\ [][ListNext]_vars

\* ------------------------- C2/dynamic array.hpp, called in any order
ArrInit ==
    /\ NoArray
    /\ new_linked_list
    /\ maze = <<>>
    /\ a_s = NoCell
    /\ a_t = NoCell
    /\ a_s0 = NoCell
    /\ a_steps = 0
    /\ apc = "off"
    /\ gscore = <<>>
    /\ came = <<>>
    /\ pq = {}
    /\ a_target = NoCell
    /\ a_ret = NoCell
    /\ NoRound("declared")
    /\ mover = Mover0

ArrFrame == UNCHANGED <<maze, avars, exit_cell, player, monster, coins,
                        coins_collected, score, last_coins_collected, last_score,
                        end_stats_ready, victory, game_over, in_key, frame_dt,
                        gen_ret, mover, lvars>>

ArrInitArray ==
    /\ pc \in {"declared", "array"}
    /\ \E initial_capacity \in 0 .. ArrCap \div 2, ok \in BOOLEAN :
          /\ arr' = init_array(arr, initial_capacity, ok)
          /\ acall' = [op |-> "init_array", value |-> initial_capacity,
                       ret |-> TRUE, wrote |-> -1]
    /\ pc' = "array"
    /\ ArrFrame

\* when the call writes outside a buffer, what comes next is undefined: the
\* process is killed, or it goes on in a state nothing can be said about
ArrPushBack ==
    /\ pc = "array"
    /\ arr.size < arr.capacity \/ arr.capacity * 2 <= ArrCap
    /\ \E value \in 1 .. ArrVals, ok \in BOOLEAN :
          LET res == push_back(arr, value, ok)
          IN  /\ arr' = res.arr
              /\ acall' = [op |-> "push_back", value |-> value, ret |-> res.ret,
                           wrote |-> res.wrote]
              /\ IF res.fault THEN pc' \in {"crash", "ub"} ELSE pc' = "array"
    /\ ArrFrame

ArrResize ==
    /\ pc = "array"
    /\ \E new_capacity \in 0 .. ArrCap, ok \in BOOLEAN :
          LET res == resize_array(arr, new_capacity, ok)
          IN  /\ arr' = res.arr
              /\ acall' = [op |-> "resize_array", value |-> new_capacity,
                           ret |-> res.ret, wrote |-> -1]
    /\ pc' = "array"
    /\ ArrFrame

ArrFree ==
    /\ pc = "array"
    /\ arr' = free_array(arr)
    /\ acall' = [op |-> "free_array", value |-> 0, ret |-> TRUE, wrote |-> -1]
    /\ pc' = "array"
    /\ ArrFrame

ArrNext ==
    \/ ArrInitArray
    \/ ArrPushBack
    \/ ArrResize
    \/ ArrFree

SpecArray == ArrInit /\ [][ArrNext]_vars

\* ------------------------------------------- reference notions for claims
\* walkable 4-neighbours of a cell
Adj(g, p) == {q \in RoadCells(g) : h(p, q[1], q[2]) = 1}

\* breadth-first layers: the true shortest-path distance, -1 when unreachable
RECURSIVE BfsDepth(_, _, _, _, _)
BfsDepth(g, seen, frontier, p, n) ==
    IF p \in frontier THEN n
    ELSE IF frontier = {} THEN -1
    ELSE LET nxt == (UNION {Adj(g, q) : q \in frontier}) \ seen
         IN  BfsDepth(g, seen \cup nxt, nxt, p, n + 1)

Dist(g, s, p) == BfsDepth(g, {s}, {s}, p, 0)
Reach(g, s) == {p \in RoadCells(g) : Dist(g, s, p) >= 0}

\* ------------------------------------------------------------------ C1
\* C1: for a goal reachable from start (start # goal) astar_next_step
\* returns a walkable 4-neighbour of start whose true shortest-path distance
\* to the goal is one less than start's; it is the goal itself when start is
\* adjacent to it, and a chase with a fixed goal arrives after exactly the
\* shortest-path length of calls (the Manhattan distance in a wall-free grid).
C1_NextStepOptimal ==
    (apc = "done" /\ a_s # a_t /\ Dist(maze, a_s, a_t) > 0) =>
        /\ a_ret \in Adj(maze, a_s)
        /\ Dist(maze, a_ret, a_t) = Dist(maze, a_s, a_t) - 1
        /\ (Dist(maze, a_s, a_t) = 1 => a_ret = a_t)
        /\ (a_ret = a_t => a_steps + 1 = Dist(maze, a_s0, a_t))
        /\ (a_ret = a_t /\ RoadCells(maze) = Cells(maze)
                => a_steps + 1 = h(a_t, a_s0[1], a_s0[2]))

\* a chase that had to walk around a wall has arrived at the goal
C1_Witness ==
    /\ apc = "done"
    /\ a_ret = a_t
    /\ a_steps + 1 > h(a_t, a_s0[1], a_s0[2])
    /\ a_steps >= 3

\* ------------------------------------------------------------------ C2
\* C2: for a goal unreachable from start, astar_next_step returns a cell
\* different from start whenever start has a reachable neighbour.
C2_UnreachableMoves ==
    (apc = "done" /\ Dist(maze, a_s, a_t) = -1 /\ Adj(maze, a_s) # {}) =>
        a_ret # a_s

\* ------------------------------------------------------------------ C3
\* C3: the returned cell is start itself or an in-bounds Road cell that is
\* 4-adjacent to start, whether or not the goal is reachable.
C3_StepIsStartOrNeighbour ==
    apc = "done" => (a_ret = a_s \/ a_ret \in Adj(maze, a_s))

\* a call with an unreachable goal returned a neighbour of start that has a
\* Wall next to it
C3_Witness ==
    /\ apc = "done"
    /\ Dist(maze, a_s, a_t) = -1
    /\ a_ret \in Adj(maze, a_s)
    /\ \E q \in Cells(maze) : h(a_ret, q[1], q[2]) = 1 /\ At(maze, q[1], q[2]) = WALL

\* ------------------------------------------------------------------ C4
\* C4: with an unreachable goal the surrogate minimises g + h over the cells
\* reached from start (g the shortest distance from start, which is what
\* gscore holds, h the Manhattan distance to the goal); the result is start
\* when the surrogate is start and otherwise the first step of a shortest
\* path from start to the surrogate.
C4_SurrogateMinimisesF ==
    (apc = "done" /\ Dist(maze, a_s, a_t) = -1) =>
        /\ a_target \in Reach(maze, a_s)
        /\ \A q \in Reach(maze, a_s) :
              /\ gscore[q[1]][q[2]] = Dist(maze, a_s, q)
              /\ Dist(maze, a_s, a_target) + h(a_t, a_target[1], a_target[2])
                    <= Dist(maze, a_s, q) + h(a_t, q[1], q[2])
        /\ (a_target = a_s => a_ret = a_s)
        /\ (a_target # a_s =>
              /\ a_ret \in Adj(maze, a_s)
              /\ Dist(maze, a_ret, a_target) = Dist(maze, a_s, a_target) - 1)

\* an unreachable goal whose surrogate lies two or more steps from start
C4_Witness ==
    /\ apc = "done"
    /\ Dist(maze, a_s, a_t) = -1
    /\ Dist(maze, a_s, a_target) >= 2
    /\ a_ret # a_target

\* ---------------------------------------------------- rounds: vocabulary
InRound == pc \in {"loop", "render"}
Playing == InRound /\ ~victory /\ ~game_over
Terminal == InRound /\ (victory \/ game_over)
\* a frame's update (lines 371-439) is the step from "loop" to "render"
UpdateStep == pc = "loop" /\ pc' = "render"
PlayerCell == <<player.r, player.c>>
MonsterCell == <<monster.r, monster.c>>
roundState == <<maze, exit_cell, player, monster, coins, coins_collected, score,
                last_coins_collected, last_score, end_stats_ready, victory,
                game_over>>
\* the state reset_round leaves behind
FreshRound ==
    /\ pc = "loop" /\ ~victory /\ ~game_over /\ ~end_stats_ready
    /\ ~player.moving /\ ~monster.moving
    /\ coins_collected = 0 /\ score = 0

\* ------------------------------------------------------------------ C5
\* C5: in a Playing frame at whose win/lose check the player's cell is the
\* exit cell and is not the monster's cell, the round becomes Victory and not
\* Defeat in that frame.
C5_VictoryOnExit ==
    [][(UpdateStep /\ Playing /\ PlayerCell' = exit_cell
            /\ PlayerCell' # MonsterCell')
         => (victory' /\ ~game_over')]_vars

\* ------------------------------------------------------------------ C6
\* C6: in a Playing frame at whose win/lose check the player's cell is the
\* monster's cell and is not the exit cell, the round becomes Defeat in that
\* frame, whether or not an actor is in the middle of a move.
C6_DefeatOnContact ==
    [][(UpdateStep /\ Playing /\ PlayerCell' = MonsterCell'
            /\ PlayerCell' # exit_cell)
         => game_over']_vars

\* ------------------------------------------------------------------ C7
\* C7: the Victory and the Defeat outcome are never both set.
C7_OneOutcome == ~(victory /\ game_over)

\* ------------------------------------------------------------------ C8
\* C8: the frozen statistics are written in the frame in which the round
\* leaves Playing, with the live score and coin count as they stand after that
\* frame's pickups, and in no other frame: a frame that stays Playing and a
\* frame of a round that is over leave them as they are, and so does a reset.
C8_FrozenOnce ==
    [][/\ (UpdateStep /\ Playing /\ (victory' \/ game_over')) =>
            /\ end_stats_ready'
            /\ last_score' = score'
            /\ last_coins_collected' = coins_collected'
       /\ (UpdateStep /\ Playing /\ ~(victory' \/ game_over')) =>
            /\ ~end_stats_ready'
            /\ UNCHANGED <<last_score, last_coins_collected>>
       /\ (Terminal /\ InRound') =>
            /\ end_stats_ready
            /\ UNCHANGED <<last_score, last_coins_collected>>
      ]_vars

\* the round ended in the frame in which the player picked up a coin, and the
\* frozen statistics show that coin
C8_Witness ==
    /\ pc = "render" /\ Terminal /\ end_stats_ready
    /\ last_score = COIN_VALUE /\ last_coins_collected = 1
    /\ player.t = TUnit

\* ------------------------------------------------------------------ C9
\* C9: while the round is Victory or Defeat a frame changes neither Mover,
\* no coin, not the live score and coin count and not the outcome; the only
\* other steps from such a state are a reset to a fresh round and the end of
\* the session.
C9_TerminalFrozen ==
    [][Terminal =>
          \/ UNCHANGED <<player, monster, coins, score, coins_collected,
                         victory, game_over, maze, exit_cell>>
          \/ (pc = "render" /\ FreshRound')
          \/ ~InRound']_vars

\* the round is over while the monster is still in the middle of a move
C9_Witness ==
    /\ pc = "loop" /\ Terminal /\ monster.moving /\ monster.t > 0

\* ----------------------------------------------------------------- C10
\* C10: a round that is over returns to Playing only by a Y typed on its end
\* screen; N or ESC typed there ends the session; and whatever is typed
\* while Playing, the rest of the frame leaves the whole round as it is.
C10_RestartOnlyFromEndScreen ==
    [][/\ (InRound /\ Playing' /\ ~Playing) =>
            (pc = "render" /\ Terminal /\ in_key' = "Y" /\ FreshRound')
       /\ (pc = "render" /\ Playing) =>
            (pc' = "loop" /\ UNCHANGED roundState)
       /\ (pc = "render" /\ Terminal /\ in_key' \in {"N", "ESC"}) =>
            pc' = "exit0"
      ]_vars

\* a second round is being played after a restart from a lost round
C10_Witness ==
    /\ Playing /\ in_key = "Y" /\ last_score = COIN_VALUE

\* ----------------------------------------------------------------- C11
\* a round starts: the set-up of lines 293-327 or a reset_round that returned
ResetDone == pc = "render" /\ Terminal /\ pc' = "loop" /\ Playing'
RoundStart == (pc = "start" /\ pc' = "loop") \/ ResetDone
\* Mover m is Idle exactly on its cell: canonical pixel, no tween in flight
IdleOnCell(m) ==
    /\ ~m.moving /\ m.t = 0
    /\ m.tr = m.r /\ m.tc = m.c
    /\ m.x = cell_to_px_c(m.c) /\ m.y = cell_to_px_r(m.r)
    /\ m.sx = m.x /\ m.sy = m.y /\ m.tx = m.x /\ m.ty = m.y

\* C11: right after a reset that returned, the round is Playing, both Movers
\* are Idle exactly on a Road cell of the new maze (canonical pixel, progress
\* 0, whatever tween was frozen when the round ended), the frozen statistics
\* are marked as not taken, every coin is uncollected and the live score and
\* coin count are 0.
C11_ResetIsFresh ==
    [][ResetDone =>
          /\ Playing'
          /\ IdleOnCell(player') /\ IdleOnCell(monster')
          /\ PlayerCell' \in RoadCells(maze') /\ MonsterCell' \in RoadCells(maze')
          /\ ~end_stats_ready'
          /\ \A i \in 1 .. Len(coins') : ~coins'[i].collected
          /\ score' = 0 /\ coins_collected' = 0]_vars

\* a reset has just returned after a round in which a coin was collected
C11_Witness ==
    /\ pc = "loop" /\ in_key = "Y" /\ Playing
    /\ last_coins_collected = 1 /\ coins_collected = 0 /\ score = 0
    /\ Len(coins) = NUM_COINS /\ ~coins[1].collected

\* ----------------------------------------------------------------- C12
\* C12: at every round start (the first set-up and every reset) the player
\* and the monster stand on two different Road cells and neither of them is
\* the exit cell.
C12_SpawnsOffExit ==
    [][RoundStart =>
          /\ PlayerCell' \in RoadCells(maze') /\ MonsterCell' \in RoadCells(maze')
          /\ PlayerCell' # MonsterCell'
          /\ PlayerCell' # exit_cell' /\ MonsterCell' # exit_cell']_vars

\* ----------------------------------------------------------------- C13
CoinCell(cn) == <<cn.r, cn.c>>

Collected(cv) == {i \in 1 .. Len(cv) : cv[i].collected}
\* a step inside one round: no set-up, no reset, main not left
SameRound == InRound /\ InRound' /\ ~ResetDone

\* C14: within a round a coin stays where it is and its collected flag only
\* goes from false to true; each step adds COIN_VALUE to the score and 1 to
\* the coin count for each coin that becomes collected in it and nothing
\* else, so a coin is counted once however long the player stays in its
\* radius; a collected coin is uncollected again only after a reset.
C14_CollectedOnce ==
    [][/\ SameRound =>
            /\ Len(coins') = Len(coins)
            /\ \A i \in 1 .. Len(coins) :
                  /\ CoinCell(coins'[i]) = CoinCell(coins[i])
                  /\ coins[i].collected => coins'[i].collected
            /\ coins_collected' - coins_collected
                  = Cardinality(Collected(coins') \ Collected(coins))
            /\ score' - score
                  = COIN_VALUE * Cardinality(Collected(coins') \ Collected(coins))
       /\ InRound' =>
            /\ coins_collected' = Cardinality(Collected(coins'))
            /\ score' = COIN_VALUE * coins_collected'
       /\ (InRound /\ InRound' /\ Collected(coins) # {}
              /\ Collected(coins') = {}) => ResetDone
      ]_vars

\* the player has come to rest on the cell of a coin it collected on the way
\* there, and the coin was counted once
C14_Witness ==
    /\ pc = "loop" /\ Playing /\ ~player.moving /\ player.t = TUnit
    /\ coins[1].collected /\ CoinCell(coins[1]) = PlayerCell
    /\ coins_collected = 1 /\ score = COIN_VALUE

\* ----------------------------------------------------------------- C15
\* the centre of coin cn lies within 0.48 of a cell of the centre of Mover m
\* (0.48^2 = 144/625; the centres are the corners shifted by half a cell)
InPickRadius(m, cn) ==
    LET dx == m.x - cell_to_px_c(cn.c)
        dy == m.y - cell_to_px_r(cn.r)
    IN  625 * (dx * dx + dy * dy) <= 144 * (TILE * PxUnit) * (TILE * PxUnit)

\* C15: in a Playing frame each uncollected coin becomes collected exactly
\* when it lies within the pickup radius of the player as the tween of that
\* frame left it, and then it lies on the cell the player is on or is moving
\* into.
C15_PickupByRadius ==
    [][(UpdateStep /\ Playing) =>
          \A i \in 1 .. Len(coins) :
             ~coins[i].collected =>
                /\ coins'[i].collected <=> InPickRadius(player', coins[i])
                /\ coins'[i].collected =>
                      CoinCell(coins[i]) \in {<<player'.r, player'.c>>,
                                              <<player'.tr, player'.tc>>}]_vars

\* the player collected the coin of the cell it is moving into before it
\* arrived there
C15_Witness ==
    /\ pc = "render" /\ Playing /\ player.moving
    /\ coins[1].collected /\ CoinCell(coins[1]) = <<player.tr, player.tc>>
    /\ CoinCell(coins[1]) # PlayerCell

\* ----------------------------------------------------------------- C18
\* what start_move commits a Mover to
Commitment(m) == <<m.tr, m.tc, m.sx, m.sy, m.tx, m.ty>>

\* C18: in the game loop a step inside a round leaves the target cell, the
\* start pixel and the target pixel of an actor that is Moving as they are,
\* the step in which it arrives included: neither the key held down nor the
\* planner starts a new move for it.
C18_NoMoveWhileMoving ==
    [][SameRound =>
          /\ player.moving => Commitment(player') = Commitment(player)
          /\ monster.moving => Commitment(monster') = Commitment(monster)]_vars

\* a frame is about to run while both actors are in the middle of a move
C18_Witness ==
    /\ pc = "loop" /\ Playing
    /\ player.moving /\ player.t > 0
    /\ monster.moving /\ monster.t > 0

\* ----------------------------------------------------------------- C16
\* an Idle Mover m is exactly on its cell and has no other target
NoDrift(m) ==
    ~m.moving =>
        /\ m.x = cell_to_px_c(m.c) /\ m.y = cell_to_px_r(m.r)
        /\ m.tr = m.r /\ m.tc = m.c

\* C16: after any sequence of place_at_cell, start_move and update_mover
\* calls a Mover whose moving flag is false has the canonical pixel position
\* of its current cell, and its target cell is its current cell; the player
\* and the monster of the game are such Movers.
C16_NoDriftWhenIdle == NoDrift(mover) /\ NoDrift(player) /\ NoDrift(monster)

\* a Mover has arrived from a move that was started in the middle of another
C16_Witness ==
    /\ ~mover.moving /\ mover.t = TUnit
    /\ mover.sx % (TILE * PxUnit) # 0
    /\ <<mover.r, mover.c>> # <<0, 0>>

\* ----------------------------------------------------------------- C17
\* C17: start_move called on a Mover that is Moving is a no-op: target cell,
\* start pixel, target pixel and progress stay as they are.
C17_StartMoveRejected ==
    mover.moving =>
        \A p \in MoverCells :
           /\ Commitment(start_move(mover, p[1], p[2])) = Commitment(mover)
           /\ start_move(mover, p[1], p[2]).t = mover.t

\* ----------------------------------------------------------------- C19
\* C19: update_mover with dt = 0 leaves every field of a Mover as it is,
\* whether the Mover is Idle or Moving and whatever its progress.
C19_AdvanceZero ==
    /\ update_mover(mover, 0) = mover
    /\ update_mover(player, 0) = player
    /\ update_mover(monster, 0) = monster

\* a Mover in the middle of a move, off its start pixel
C19_Witness ==
    /\ mover.moving /\ mover.t > 0 /\ mover.t < TUnit
    /\ <<mover.x, mover.y>> # <<mover.sx, mover.sy>>

\* ----------------------------------------------------------------- C20
\* the frame time dt takes the progress of Mover m to 1 or beyond
Arrives(m, dt) ==
    m.moving /\ m.t * DtDen * TILE + m.speed * dt * TUnit >= TUnit * DtDen * TILE

\* C20: update_mover called on a Moving Mover with a dt that takes the
\* progress to 1 or beyond, however large, leaves the progress at exactly 1,
\* the current cell at the target cell, the pixel position at the canonical
\* position of the target cell and the Mover Idle.
C20_ArrivesExactly ==
    \A m \in {mover, player, monster} : \A dt \in MoverDts :
        Arrives(m, dt) =>
            LET m2 == update_mover(m, dt)
            IN  /\ m2.t = TUnit /\ ~m2.moving
                /\ m2.r = m.tr /\ m2.c = m.tc
                /\ m2.x = cell_to_px_c(m.tc) /\ m2.y = cell_to_px_r(m.tr)

\* a Mover at the monster's speed has arrived on another cell
C20_Witness ==
    /\ ~mover.moving /\ mover.t = TUnit /\ mover.speed = MONSTER_SPEED
    /\ <<mover.x, mover.y>> # <<mover.sx, mover.sy>>
    /\ mover.x = cell_to_px_c(mover.c) /\ mover.y = cell_to_px_r(mover.r)

\* ----------------------------------------------------------------- C21
Between(v, a, b) == (a <= v /\ v <= b) \/ (b <= v /\ v <= a)
\* the pixel of Mover m lies on the segment from its start pixel to its
\* target pixel, to within the rounding of one pixel unit per coordinate
OnSegment(m) ==
    /\ Between(m.x, m.sx, m.tx) /\ Between(m.y, m.sy, m.ty)
    /\ Abs((m.x - m.sx) * (m.ty - m.sy) - (m.y - m.sy) * (m.tx - m.sx))
          <= Abs(m.tx - m.sx) + Abs(m.ty - m.sy)

\* C21: while a Mover is Moving, whatever update_mover calls with dt >= 0 it
\* has had, its progress is in [0, 1] and its pixel position lies on the
\* segment between its start pixel and its target pixel.
C21_OnSegmentWhileMoving ==
    \A m \in {mover, player, monster} :
        m.moving => (0 <= m.t /\ m.t <= TUnit /\ OnSegment(m))

\* a Mover part of the way along a diagonal move
C21_Witness ==
    /\ mover.moving /\ mover.t > 0
    /\ mover.sx # mover.tx /\ mover.sy # mover.ty
    /\ mover.x # mover.sx /\ mover.y # mover.sy

\* ----------------------------------------------------------------- C22
\* C22: the dt a frame hands to update_mover is bounded by a fixed per-tick
\* maximum whatever the time since the previous frame: a stall of HugeDt
\* does not reach the Movers as it is.
C22_DtClamped == frame_dt < HugeDt

\* ----------------------------------------------------------------- C23
\* Mover m2 is what one frame may make of Mover m1 on grid g: on the same
\* cell or on a walkable 4-neighbour of it, and at most one cell size away
OneStep(g, m1, m2) ==
    /\ <<m2.r, m2.c>> = <<m1.r, m1.c>> \/ <<m2.r, m2.c>> \in Adj(g, <<m1.r, m1.c>>)
    /\ Abs(m2.x - m1.x) + Abs(m2.y - m1.y) <= TILE * PxUnit

\* C23: in one frame, whatever its dt, the cell of each actor changes by at
\* most one step to a walkable 4-neighbour and its pixel position by at most
\* one cell size.
C23_OneCellPerFrame ==
    [][UpdateStep =>
          /\ OneStep(maze, player, player')
          /\ OneStep(maze, monster, monster')]_vars

\* after a frame with a stall for dt both actors are Idle at the end of a
\* move
C23_Witness ==
    /\ pc = "render" /\ frame_dt = HugeDt
    /\ ~player.moving /\ player.t = TUnit /\ player.sx # player.x
    /\ ~monster.moving /\ monster.t = TUnit /\ monster.sy # monster.y

\* ----------------------------------------------------------------- C24
\* g is a rectangular grid with at least one cell
Rect(g) ==
    /\ Len(g) > 0 /\ Len(g[1]) > 0
    /\ \A r \in 1 .. Len(g) : Len(g[r]) = Len(g[1])
\* the Road cells on the border of a rectangular grid
BorderRoads(g) ==
    {p \in RoadCells(g) : p[1] \in {0, GridH(g) - 1} \/ p[2] \in {0, GridW(g) - 1}}

\* C24: on a rectangular grid with at least one cell find_single_exit
\* returns exactly when the border holds exactly one Road cell, on an edge or
\* in a corner, also with a single row or column, and it returns that cell;
\* otherwise it throws.
C24_ExitIffOneBorderRoad ==
    (Rect(maze) /\ pc \in {"found", "exit1"}) =>
        /\ pc = "found" <=> Cardinality(BorderRoads(maze)) = 1
        /\ pc = "found" => exit_cell \in BorderRoads(maze)

\* ----------------------------------------------------------------- C25
\* C25: a grid that is empty or whose rows differ in length is refused with
\* an error before the round is set up: the set-up of a round is only ever
\* reached, and a round only ever started, on a rectangular grid.
C25_OnlyRectangularGrids ==
    pc \in {"found", "loop", "hung"} => Rect(maze)

\* ----------------------------------------------------------------- C26
\* the move Mover m2 has under way or behind it was started from the pixel
\* of Mover m to cell q
StartedTo(m, m2, q) ==
    /\ <<m2.tr, m2.tc>> = q
    /\ <<m2.sx, m2.sy>> = <<m.x, m.y>>
    /\ <<m2.tx, m2.ty>> = <<cell_to_px_c(q[2]), cell_to_px_r(q[1])>>

\* C26: in every Playing frame in which the monster is Idle, the next step
\* is computed from the monster's cell to the player's committed cell, and
\* the monster starts a move to the returned cell if and only if it differs
\* from the monster's cell; no move is started while the monster is Moving
\* or the round is terminal.
C26_PlanWhenIdle ==
    [][UpdateStep =>
          IF Playing /\ ~monster.moving
          THEN \E step \in astar_next_step(maze, MonsterCell, PlayerCell) :
                  IF step = MonsterCell
                  THEN monster' = monster
                  ELSE StartedTo(monster, monster', step)
          ELSE Commitment(monster') = Commitment(monster)]_vars

\* a frame of no length in which the player and the monster have both
\* started a move, while the player is not where the monster is heading
C26_Witness ==
    /\ pc = "render" /\ Playing /\ frame_dt = 0
    /\ player.moving /\ player.t = 0
    /\ monster.moving /\ monster.t = 0
    /\ <<monster.tr, monster.tc>> # PlayerCell

\* ----------------------------------------------------------------- C27
\* C27: when a restart is requested and producing or loading the new grid
\* fails (the generator fails, or the border-exit count of the grid loaded is
\* wrong), the round does not return to Playing on any grid: the step ends
\* in the fatal error exit.
C27_FailedResetIsFatal ==
    [][(pc = "render" /\ Terminal /\ (gen_ret' = "failed" \/ ExitThrows(maze')))
          => pc' = "exit1"]_vars

\* ----------------------------------------------------------------- C28
\* the move of Mover m, if one is under way, goes to a walkable 4-neighbour
\* of its cell on grid g
MoveOnGrid(g, m) == m.moving => <<m.tr, m.tc>> \in Adj(g, <<m.r, m.c>>)

\* C28: a planning result of one round is never applied to the actors of a
\* later round or to a terminal round: a reset leaves the monster Idle on
\* its new cell with no move pending, a terminal frame starts no move, and
\* every move the monster has under way is a move on the current grid that
\* was a next step from its cell to the player's cell in the frame that
\* started it.
C28_NoStalePlan ==
    [][/\ ResetDone => IdleOnCell(monster')
       /\ (UpdateStep /\ Terminal) => monster' = monster
       /\ InRound' => MoveOnGrid(maze', monster')
       /\ (UpdateStep /\ Commitment(monster') # Commitment(monster)) =>
              /\ Playing
              /\ <<monster'.tr, monster'.tc>>
                    \in astar_next_step(maze, MonsterCell, PlayerCell)]_vars

\* in a round that follows a reset (the frozen statistics of an earlier
\* round show a coin) the monster is part of the way through a move
C28_Witness ==
    /\ Playing /\ pc = "render" /\ last_coins_collected > 0 /\ coins_collected = 0
    /\ monster.moving /\ monster.t > 0

\* ----------------------------------------------------------------- C29
\* the data the list holds, from the head to the tail
Elems == traverse_list(heap, list)
Clamp(v, lo, hi) == IF v < lo THEN lo ELSE IF v > hi THEN hi ELSE v
\* sequence s with d put in at 0-based index i
InsertedAt(s, i, d) == SubSeq(s, 1, i) \o <<d>> \o SubSeq(s, i + 1, Len(s))
\* sequence s without its element at 0-based index i
RemovedAt(s, i) == SubSeq(s, 1, i) \o SubSeq(s, i + 2, Len(s))

\* C29: for a list of n elements, insert_at(list, position, data) gives the
\* same sequence with data inserted at index min(max(position, 0), n) and
\* the other elements in their previous order: at the head for
\* position <= 0, at the tail for position >= n.
C29_InsertAtClamped ==
    [][call'.op = "insert_at" =>
          Elems' = InsertedAt(Elems, Clamp(call'.position, 0, Len(Elems)),
                              call'.data)]_vars

\* an insertion between the two elements of a list, which differ
C29_Witness ==
    /\ call.op = "insert_at" /\ call.position = 1
    /\ Len(Elems) = 3 /\ Elems[1] # Elems[3] /\ Elems[2] = call.data

\* ----------------------------------------------------------------- C30
\* C30: for a list of n elements, delete_at(list, position) removes the head
\* when position <= 0 and n > 0, removes exactly the element at index
\* position when 0 < position < n, and leaves the list completely unchanged
\* when position >= n or the list is empty.
C30_DeleteAt ==
    [][call'.op = "delete_at" =>
          LET n == Len(Elems)
              position == call'.position
          IN  IF n > 0 /\ position <= 0 THEN Elems' = Tail(Elems)
              ELSE IF 0 < position /\ position < n
              THEN Elems' = RemovedAt(Elems, position)
              ELSE heap' = heap /\ list' = list]_vars

\* the middle one of three elements has been deleted
C30_Witness ==
    /\ call.op = "delete_at" /\ call.position = 1
    /\ Len(Elems) = 2 /\ Elems[1] # Elems[2]
    /\ heap[list.first].next = list.last

\* ----------------------------------------------------------------- C31
\* C31: in every state of a round, across frames and resets, the current
\* cell and the target cell of both actors are in-bounds Road cells of the
\* current grid, and while an actor is Moving its target cell is 4-adjacent
\* to its current cell.
C31_ActorsOnRoads ==
    InRound =>
        \A m \in {player, monster} :
            /\ <<m.r, m.c>> \in RoadCells(maze)
            /\ <<m.tr, m.tc>> \in RoadCells(maze)
            /\ m.moving => h(<<m.r, m.c>>, m.tr, m.tc) = 1

\* a round after a reset (a coin shows in the frozen statistics) in which
\* both actors are part of the way through a move
C31_Witness ==
    /\ Playing /\ last_coins_collected > 0
    /\ player.moving /\ player.t > 0
    /\ monster.moving /\ monster.t > 0

\* ----------------------------------------------------------------- C32
\* C32: in every state of a round the live score is COIN_VALUE times the
\* live coin count, the live coin count is the number of coins whose
\* collected flag is set, and the coin count is between 0 and NUM_COINS.
C32_ScoreMatchesCoins ==
    InRound =>
        /\ score = COIN_VALUE * coins_collected
        /\ coins_collected = Cardinality({i \in 1 .. Len(coins) : coins[i].collected})
        /\ 0 <= coins_collected /\ coins_collected <= NUM_COINS

\* a round still being played in which every coin has been collected
C32_Witness ==
    /\ Playing /\ Len(coins) = NUM_COINS
    /\ \A i \in 1 .. Len(coins) : coins[i].collected
    /\ coins_collected = NUM_COINS

\* ----------------------------------------------------------------- C33
\* C33: if the player's cell is reachable from the monster's cell and the
\* player never issues a move, then, as long as frames with positive dt keep
\* coming, the round eventually leaves Playing.
C33_ChaseEnds ==
    (Playing /\ Dist(maze, MonsterCell, PlayerCell) >= 0) ~> ~Playing

\* the monster has walked onto the cell of a player who never moved, and
\* the round is lost
C33_Witness ==
    /\ InRound /\ game_over /\ ~victory
    /\ IdleOnCell(player)
    /\ MonsterCell = PlayerCell /\ monster.t = TUnit
    /\ <<monster.sx, monster.sy>> # <<monster.x, monster.y>>

\* ----------------------------------------------------------------- C34
\* C34: the set-up of a round, at the start and at every reset, terminates
\* for every grid that passes the exit check: the resampling loop of the
\* monster's spawn and the placement loop of the coins are both left,
\* however few Road cells the grid has.
C34_SetupTerminates ==
    [][(pc \in {"start", "render"} /\ ~ExitThrows(maze')) => pc' # "hung"]_vars

\* ----------------------------------------------------------------- C35
\* the recorded g-costs of cells i, i + 1, ... in row-major order, summed,
\* with a cell not reached yet counted as the number of cells of the grid
RECURSIVE SumG(_, _, _)
SumG(g, gs, i) ==
    IF i >= GridH(g) * GridW(g) THEN 0
    ELSE LET v == gs[i \div GridW(g)][i % GridW(g)]
         IN  (IF v >= INF29 THEN GridH(g) * GridW(g) ELSE v) + SumG(g, gs, i + 1)
\* what the while loop has left to do at most: a push lowers the first term
\* by at least 1, a pop lowers the second by 1
SearchMeasure == SumG(maze, gscore, 0) + Cardinality(pq)

\* C35: astar_next_step terminates on every finite grid for every start and
\* goal, unreachable goals included: a cell is pushed only when its recorded
\* g-cost strictly decreases, so every iteration of the while loop lowers a
\* measure that is never negative, and the open set is exhausted after
\* finitely many iterations.
C35_SearchTerminates ==
    [][(apc = "search" /\ pq # {}) =>
          (0 <= SearchMeasure' /\ SearchMeasure' < SearchMeasure)]_vars

\* a call for a goal that cannot be reached has returned a step, with the
\* open set exhausted
C35_Witness ==
    /\ apc = "done" /\ a_s # a_t /\ pq = {}
    /\ came[a_t[1]][a_t[2]] = NoCell
    /\ a_ret # a_s

\* ----------------------------------------------------------------- C36
\* the node reached by following next from node current to the end
RECURSIVE EndNode(_, _, _)
EndNode(mem, current, fuel) ==
    IF mem[current].next = NULL \/ fuel = 0 THEN current
    ELSE EndNode(mem, mem[current].next, fuel - 1)

\* C36: after any sequence of add_node, insert_at and delete_at, first and
\* last are both null exactly when the list is empty, and otherwise last
\* points to the node reached by following next from first to the end, the
\* node whose next is null.
C36_LastIsEnd ==
    /\ (list.first = NULL) <=> (list.last = NULL)
    /\ (list.first = NULL) <=> (Elems = <<>>)
    /\ list.first # NULL =>
          /\ heap[list.last].live /\ heap[list.last].next = NULL
          /\ EndNode(heap, list.first, ListCap + 1) = list.last

\* insert_at has put a node behind the tail of a list of two
C36_Witness ==
    /\ call.op = "insert_at" /\ call.position >= 2
    /\ Len(Elems) = 3 /\ list.last # list.first
    /\ heap[list.last].data = call.data

\* ----------------------------------------------------------------- C37
\* C37: after any sequence of init_array, push_back, resize_array and
\* free_array, allocation failures and a push_back after free_array
\* included, size <= capacity holds, push_back writes only at an index below
\* the allocated capacity of a non-null buffer, and a push_back that returns
\* true keeps all earlier elements in order with the new value last.
C37_PushBackInBounds ==
    [][acall'.op # "none" =>
          /\ arr'.size <= arr'.capacity
          /\ (acall'.op = "push_back" /\ acall'.wrote >= 0) =>
                /\ arr'.data # <<>>
                /\ acall'.wrote < Len(arr'.data)
          /\ (acall'.op = "push_back" /\ acall'.ret) =>
                /\ arr'.size = arr.size + 1
                /\ \A i \in 1 .. arr.size : arr'.data[i] = arr.data[i]
                /\ arr'.data[arr'.size] = acall'.value]_vars
====
